---- MODULE Spec2Model ----
(***************************************************************************)
(* A model of xfrd.c, the zone-transfer daemon of NSD: the per-zone SOA    *)
(* timer state machine, the UDP probe, the TCP connection pool with its    *)
(* wait queue, the TCP transfer engine and the reply handler.              *)
(*                                                                         *)
(* Every handler of the event loop is one action.  A handler calls other   *)
(* functions synchronously and each system call it makes can end in more   *)
(* than one way, so every C function is an operator from a program state   *)
(* (a record) to the SET of states the function can return in.             *)
(*                                                                         *)
(* SOA numbers are held in host order: the source stores them in network   *)
(* order and converts with ntohl()/htonl() at every use (lines 302-308,    *)
(* 369, 866-873, 1486-1502, 1544-1546), so only the host value is seen.    *)
(* time_t and the uint32_t casts are modelled on an LP64 build, where the  *)
(* mixed comparisons of lines 369, 682, 689 and 865 are plain integer      *)
(* comparisons.                                                            *)
(***************************************************************************)
EXTENDS Integers, Sequences, FiniteSets, TLC

(***************************************************************************)
(* Bounds of the model.                                                    *)
(***************************************************************************)
NumZones == 3          \* configured secondary zones
NumMasters == 2        \* masters in each zone's request_xfr list
XFRD_MAX_TCP == 1      \* slots of the TCP pool (xfrd.h; the size is a parameter here)
MaxFds == 2            \* descriptors socket() can hand out before it fails
MaxFineTime == 8       \* the clock moves second by second up to here
MaxTime == 123         \* and jumps from deadline to deadline up to here
SERIAL_BITS == 2       \* width of a serial number (32 in the source)
QIOBUFSZ == 2          \* capacity of a packet buffer, in bytes
MaxQueryId == 1        \* values random() gives a query id
MaxJitter == 0         \* values random() gives the jitter of a retry

(***************************************************************************)
(* Program constants.                                                      *)
(***************************************************************************)
XFRD_TRANSFER_TIMEOUT == 10
XFRD_TCP_TIMEOUT == 120
StartTime == 3

NULL == 0
Zones == 1 .. NumZones
Slots == 0 .. (XFRD_MAX_TCP - 1)
Serials == 0 .. (2 ^ SERIAL_BITS - 1)
QueryIds == 1 .. MaxQueryId

xfrd_zone_ok == "ok"
xfrd_zone_refreshing == "refreshing"
xfrd_zone_expired == "expired"

NETIO_EVENT_READ == "READ"
NETIO_EVENT_WRITE == "WRITE"
NETIO_EVENT_TIMEOUT == "TIMEOUT"

VARIABLES
    now,                \* the clock, as xfrd_time() returns it
    zone,               \* xfrd->zones: zone -> xfrd_zone_t
    tcp_count,          \* xfrd->tcp_count
    tcp_waiting_first,  \* xfrd->tcp_waiting_first (NULL or a zone)
    tcp_waiting_last,   \* xfrd->tcp_waiting_last
    tcp_state,          \* xfrd->tcp_state[]: slot -> xfrd_tcp_t
    open_fds,           \* descriptors open in the process
    aborted,            \* "" or the assertion that aborted the process
    arrivals,           \* history: the waiting zones, in the order they came
    statefile,          \* the state file on disk
    pc,                 \* where xfrd_init stands: "read_state" or "main"
    last                \* the event handled last and the trace it left

vars == <<now, zone, tcp_count, tcp_waiting_first, tcp_waiting_last,
          tcp_state, open_fds, aborted, arrivals, statefile, pc, last>>

(***************************************************************************)
(* The program state as one record, which the operators below transform.   *)
(* log is the trace of the event being handled: the lines it logs, the     *)
(* records it writes to the diff file and the pool operations it makes     *)
(* (a release is traced with the wait order and tcp_count it found, a pop  *)
(* with the slot, tcp_count and tcp_waiting it left).  arrivals is a       *)
(* history variable, which no operator reads except to trace it.  env is   *)
(* what the environment may do in the specification at hand.               *)
(***************************************************************************)
State(env) ==
    [env |-> env, now |-> now, zone |-> zone, tcp_count |-> tcp_count,
     tcp_waiting_first |-> tcp_waiting_first,
     tcp_waiting_last |-> tcp_waiting_last, tcp_state |-> tcp_state,
     open_fds |-> open_fds, aborted |-> aborted, arrivals |-> arrivals,
     log |-> <<>>]

Log(s, line) == [s EXCEPT !.log = Append(@, line)]

\* a failed assert(): the process aborts where it stands
Abort(s, what) == [s EXCEPT !.aborted = what]

\* UNION of f over a set of states: the sequencing of two calls
Then(S, f(_)) == UNION {f(s) : s \in S}

\* close(fd)
close(s, fd) == [s EXCEPT !.open_fds = @ \ {fd}]

\* the descriptor socket() returns: the lowest one free, -1 when none is
FreeFd(s) ==
    IF \E fd \in 0 .. (MaxFds - 1) : fd \notin s.open_fds
    THEN CHOOSE fd \in 0 .. (MaxFds - 1) :
            /\ fd \notin s.open_fds
            /\ \A g \in 0 .. (MaxFds - 1) : g \notin s.open_fds => fd <= g
    ELSE -1

\* random() % XFRD_TRANSFER_TIMEOUT
RandomJitter ==
    {r \in 0 .. MaxJitter : r < XFRD_TRANSFER_TIMEOUT}

\* may this system call fail in the specification at hand
MayFail(s, call) == call \in s.env.faults

\* the byte counts a read() or write() of n bytes may return
Moved(s, n) == IF s.env.partial THEN 1 .. n ELSE {n}

(***************************************************************************)
(* compare_serial (util.c): RFC 1982 comparison of two serial numbers.     *)
(***************************************************************************)
compare_serial(a, b) ==
    LET cutoff == 2 ^ (SERIAL_BITS - 1) IN
    IF a = b THEN 0
    ELSE IF (a < b /\ b - a < cutoff) \/ (a > b /\ a - b > cutoff) THEN -1
    ELSE 1

(***************************************************************************)
(* Timers.                                                                 *)
(***************************************************************************)
\* xfrd_set_timer that stores the time and leaves the handler without it
xfrd_set_timer_unarmed(s, z, t) ==
    [s EXCEPT !.zone[z].handler_timeout = FALSE, !.zone[z].timeout = t]

xfrd_set_timer(s, z, t) ==
    [s EXCEPT !.zone[z].handler_timeout = TRUE, !.zone[z].timeout = t]

xfrd_set_refresh_now(s, z, zone_state) ==
    [s EXCEPT !.zone[z].zone_state = zone_state,
              !.zone[z].fd = -1,
              !.zone[z].handler_timeout = TRUE,
              !.zone[z].timeout = s.now]

\* the guard of the second branch of xfrd_set_timer_retry
RetryBeforeExpire(s, z) ==
    \/ s.zone[z].zone_state = xfrd_zone_expired
    \/ s.now + s.zone[z].soa_disk.retry
         < s.zone[z].soa_disk_acquired + s.zone[z].soa_disk.expire

xfrd_set_timer_retry(s, z) ==
    IF s.zone[z].soa_disk_acquired = 0
    THEN {xfrd_set_timer(s, z, s.now + XFRD_TRANSFER_TIMEOUT + r) :
            r \in RandomJitter}
    ELSE IF RetryBeforeExpire(s, z)
    THEN {xfrd_set_timer(s, z, s.now + s.zone[z].soa_disk.retry)}
    ELSE {xfrd_set_timer(s, z, s.zone[z].soa_disk_acquired
                                  + s.zone[z].soa_disk.expire)}

xfrd_send_expiry_notification(s, z) == Log(s, <<"expiry", z>>)

(***************************************************************************)
(* The UDP probe.  The result is the state with handler->fd assigned the   *)
(* value returned (line 367 is the only call).  A descriptor whose sendto  *)
(* fails is returned as -1 without being closed.                           *)
(***************************************************************************)
xfrd_send_ixfr_request_udp(s, z) ==
    IF s.zone[z].tcp_conn # -1
    THEN {[s EXCEPT !.zone[z].fd = -1]}
    ELSE UNION {
        LET s1 == Log([s EXCEPT !.zone[z].query_id = id],
                      <<"udp_ixfr", z, id, 1, s.zone[z].soa_disk.serial>>)
            fd == FreeFd(s1)
            s2 == [s1 EXCEPT !.open_fds = @ \cup {fd}]
        IN  (IF fd = -1 \/ MayFail(s, "socket")
             THEN {[s1 EXCEPT !.zone[z].fd = -1]} ELSE {})
            \cup
            (IF fd # -1 /\ MayFail(s, "sendto")
             THEN {[s2 EXCEPT !.zone[z].fd = -1]} ELSE {})
            \cup
            (IF fd # -1
             THEN {Log([s2 EXCEPT !.zone[z].fd = fd], <<"sent_udp", z>>)}
             ELSE {})
        : id \in QueryIds }

(***************************************************************************)
(* Packet buffers (buffer.h): a position and a limit in a buffer of        *)
(* QIOBUFSZ bytes.  The bytes themselves are not kept: the length of a     *)
(* message is chosen when its length prefix is complete, its content when  *)
(* its last byte is in.                                                    *)
(***************************************************************************)
buffer_remaining(tcp) == tcp.limit - tcp.position
AxfrQueryLen == QIOBUFSZ - 1    \* header and question
IxfrQueryLen == QIOBUFSZ        \* header, question and the SOA in the authority
LenPrefix == 2                  \* sizeof(tcp->msglen), a uint16_t

(***************************************************************************)
(* A received message, as far as xfrd_handle_received_xfr_packet reads it. *)
(***************************************************************************)
GoodPackets(s, id) ==
    [id : {id}, rcode : {0}, qd_ok : {TRUE}, ancount : {1, 2},
     soa_ok : {TRUE}, rr_ok : {TRUE}, serial : s.env.serials, tc : BOOLEAN]

BadPacket(id) ==
    [id |-> id, rcode |-> 0, qd_ok |-> TRUE, ancount |-> 2, soa_ok |-> TRUE,
     rr_ok |-> TRUE, serial |-> 1, tc |-> FALSE]

BadPackets(s, id) ==
    IF MayFail(s, "reply")
    THEN { [BadPacket(id) EXCEPT !.id = 0],
           [BadPacket(id) EXCEPT !.rcode = 2],
           [BadPacket(id) EXCEPT !.qd_ok = FALSE],
           [BadPacket(id) EXCEPT !.ancount = 0],
           [BadPacket(id) EXCEPT !.soa_ok = FALSE],
           [BadPacket(id) EXCEPT !.rr_ok = FALSE] }
    ELSE {}

Packets(s, id) == GoodPackets(s, id) \cup BadPackets(s, id)

(***************************************************************************)
(* The TCP pool, the transfer engine and the reply handler call each       *)
(* other.                                                                  *)
(***************************************************************************)
RECURSIVE xfrd_tcp_release(_, _)
RECURSIVE xfrd_tcp_open(_, _)
RECURSIVE xfrd_tcp_start(_, _)
RECURSIVE xfrd_tcp_xfr(_, _)
RECURSIVE xfrd_tcp_write(_, _)
RECURSIVE xfrd_tcp_write_body(_, _)
RECURSIVE xfrd_tcp_read(_, _)
RECURSIVE xfrd_tcp_read_body(_, _)
RECURSIVE xfrd_tcp_obtain(_, _)
RECURSIVE xfrd_handle_received_xfr_packet(_, _, _)

\* a variant of TcpPoolHasRoom that lets one zone too many in
TcpPoolHasRoomLax(s) == s.tcp_count <= XFRD_MAX_TCP

\* the test of xfrd_tcp_obtain: is a slot free
TcpPoolHasRoom(s) == s.tcp_count < XFRD_MAX_TCP

\* the slot xfrd_tcp_obtain picks: the first whose fd is -1 (-1: none)
FreeSlot(s) ==
    IF \E i \in Slots : s.tcp_state[i].fd = -1
    THEN CHOOSE i \in Slots :
            /\ s.tcp_state[i].fd = -1
            /\ \A j \in Slots : s.tcp_state[j].fd = -1 => i <= j
    ELSE -1

\* a variant of TcpEnqueue that puts the zone at the head of the wait queue
TcpEnqueueFront(s, z) ==
    LET s1 == [s EXCEPT !.zone[z].tcp_waiting_next = s.tcp_waiting_first,
                        !.zone[z].tcp_waiting = 1,
                        !.arrivals = Append(@, z)]
    IN  IF s1.tcp_waiting_last = NULL
        THEN [s1 EXCEPT !.tcp_waiting_first = z, !.tcp_waiting_last = z]
        ELSE [s1 EXCEPT !.tcp_waiting_first = z]

\* the tail of xfrd_tcp_obtain: the zone joins the end of the wait queue
TcpEnqueue(s, z) ==
    LET s1 == [s EXCEPT !.zone[z].tcp_waiting_next = NULL,
                        !.zone[z].tcp_waiting = 1,
                        !.arrivals = Append(@, z)]
    IN  IF s1.tcp_waiting_last = NULL
        THEN [s1 EXCEPT !.tcp_waiting_first = z, !.tcp_waiting_last = z]
        ELSE [s1 EXCEPT !.zone[s1.tcp_waiting_last].tcp_waiting_next = z,
                        !.tcp_waiting_last = z]

\* if(!xfrd_tcp_open(zone)) return; xfrd_tcp_xfr(zone);
xfrd_tcp_start(s, z) ==
    UNION { IF r.ret = 0 \/ r.st.aborted # "" THEN {r.st}
            ELSE xfrd_tcp_xfr(r.st, z)
          : r \in xfrd_tcp_open(s, z) }

xfrd_tcp_obtain(s, z) ==
    IF s.zone[z].tcp_conn # -1 THEN {Abort(s, "obtain: tcp_conn == -1")}
    ELSE IF s.zone[z].tcp_waiting # 0 THEN {Abort(s, "obtain: tcp_waiting == 0")}
    ELSE IF TcpPoolHasRoom(s)
    THEN LET i == FreeSlot(s)
             s1 == [s EXCEPT !.tcp_count = @ + 1, !.zone[z].tcp_conn = i]
         IN  IF i = -1 THEN {Abort(s1, "obtain: tcp_conn != -1")}
             ELSE xfrd_tcp_start(
                    Log([s1 EXCEPT !.zone[z].tcp_waiting = 0],
                        <<"obtain", z, i>>), z)
    ELSE {Log(TcpEnqueue(s, z), <<"wait", z>>)}

(***************************************************************************)
(* xfrd_tcp_open: the set of [st, ret].  A descriptor whose connect (or    *)
(* fcntl) fails is not closed.                                             *)
(***************************************************************************)
xfrd_tcp_open(s, z) ==
    LET conn == s.zone[z].tcp_conn
        s1 == [s EXCEPT !.tcp_state[conn].is_reading = 0,
                        !.tcp_state[conn].total_bytes = 0,
                        !.tcp_state[conn].msglen = 0]
        fd == FreeFd(s1)
        s2 == [s1 EXCEPT !.open_fds = @ \cup {fd}]
        s3 == [s2 EXCEPT !.zone[z].fd = fd,
                         !.tcp_state[conn].fd = fd,
                         !.zone[z].event_types =
                              {NETIO_EVENT_TIMEOUT, NETIO_EVENT_WRITE}]
    IN  (IF fd = -1 \/ MayFail(s, "socket")
         THEN {[st |-> r, ret |-> 0] :
                 r \in xfrd_tcp_release(Log(s1, <<"socket_failed", z>>), z)}
         ELSE {})
        \cup
        (IF fd # -1 /\ MayFail(s, "connect")
         THEN {[st |-> r, ret |-> 0] :
                 r \in xfrd_tcp_release(Log(s2, <<"connect_failed", z>>), z)}
         ELSE {})
        \cup
        (IF fd # -1
         THEN {[st |-> xfrd_set_timer(s3, z, s3.now + XFRD_TCP_TIMEOUT),
                ret |-> 1]}
         ELSE {})

\* a variant that asks for an IXFR whatever the zone has
TcpQueryIsAxfrNever(s, z) == FALSE

\* line 1225: a zone without a disk SOA asks for the whole zone
TcpQueryIsAxfr(s, z) == s.zone[z].soa_disk_acquired = 0

\* the trace holds the query as it was built: its kind, the zone, the ID,
\* NSCOUNT and the serial of the SOA in the authority section
xfrd_tcp_xfr(s, z) ==
    LET conn == s.zone[z].tcp_conn
        axfr == TcpQueryIsAxfr(s, z)
        len == IF axfr THEN AxfrQueryLen ELSE IxfrQueryLen
        soa == IF axfr THEN <<0, 0>> ELSE <<1, s.zone[z].soa_disk.serial>>
    IN  IF s.zone[z].tcp_waiting # 0 THEN {Abort(s, "xfr: tcp_waiting == 0")}
        ELSE UNION {
            xfrd_tcp_write(
                Log([s EXCEPT !.zone[z].query_id = id,
                              !.tcp_state[conn].position = 0,
                              !.tcp_state[conn].limit = len,
                              !.tcp_state[conn].msglen = len],
                    <<IF axfr THEN "tcp_axfr" ELSE "tcp_ixfr", z, id,
                      soa[1], soa[2]>>), z)
            : id \in QueryIds }

(***************************************************************************)
(* xfrd_tcp_write: the length prefix, then the query.  write() returns -1  *)
(* with EAGAIN or EINTR, -1 with another error, or the bytes it took.      *)
(***************************************************************************)
TcpWriteFails(s, z) ==
    (IF MayFail(s, "eagain") THEN {s} ELSE {})
    \cup (IF MayFail(s, "write")
          THEN xfrd_tcp_release(Log(s, <<"tcp_write_failed", z>>), z)
          ELSE {})

xfrd_tcp_write(s, z) ==
    LET conn == s.zone[z].tcp_conn
        tcp == s.tcp_state[conn]
    IN  IF tcp.total_bytes < LenPrefix
        THEN TcpWriteFails(s, z)
             \cup UNION {
                LET s1 == [s EXCEPT !.tcp_state[conn].total_bytes = @ + sent]
                IN  IF s1.tcp_state[conn].total_bytes < LenPrefix
                    THEN {s1}
                    ELSE xfrd_tcp_write_body(s1, z)
                : sent \in Moved(s, LenPrefix - tcp.total_bytes) }
        ELSE xfrd_tcp_write_body(s, z)

\* lines 1298-1303: done writing, get ready for reading
TcpStartReading(s, z) ==
    LET conn == s.zone[z].tcp_conn IN
    [s EXCEPT !.tcp_state[conn].is_reading = 1,
              !.tcp_state[conn].total_bytes = 0,
              !.tcp_state[conn].msglen = 0,
              !.tcp_state[conn].position = 0,
              !.tcp_state[conn].limit = QIOBUFSZ,
              !.zone[z].event_types = {NETIO_EVENT_READ, NETIO_EVENT_TIMEOUT}]

xfrd_tcp_write_body(s, z) ==
    LET conn == s.zone[z].tcp_conn
        tcp == s.tcp_state[conn]
        sending ==
            TcpWriteFails(s, z)
            \cup UNION {
                LET s1 == [s EXCEPT !.tcp_state[conn].position = @ + sent,
                                    !.tcp_state[conn].total_bytes = @ + sent]
                    t1 == s1.tcp_state[conn]
                IN  IF t1.total_bytes < t1.msglen + LenPrefix
                    THEN {s1}
                    ELSE IF t1.total_bytes # t1.msglen + LenPrefix
                    THEN {Abort(s1, "write: total_bytes == msglen + 2")}
                    ELSE xfrd_tcp_read(
                            Log(TcpStartReading(s1, z), <<"tcp_written", z>>), z)
                : sent \in Moved(s, buffer_remaining(tcp)) }
    IN  IF ~(tcp.total_bytes < tcp.msglen + LenPrefix)
        THEN {Abort(s, "write: total_bytes < msglen + 2")}
        ELSE sending

(***************************************************************************)
(* xfrd_tcp_read: the length prefix, then the message.  read() returns -1  *)
(* with EAGAIN or EINTR, -1 with another error, 0 at end of file, or the   *)
(* bytes it gave.                                                          *)
(***************************************************************************)
TcpReadFails(s, z) ==
    (IF MayFail(s, "eagain") THEN {s} ELSE {})
    \cup (IF MayFail(s, "read")
          THEN xfrd_tcp_release(Log(s, <<"tcp_read_failed", z>>), z)
          ELSE {})
    \cup (IF MayFail(s, "eof")
          THEN xfrd_tcp_release(Log(s, <<"tcp_eof", z>>), z)
          ELSE {})

xfrd_tcp_read(s, z) ==
    LET conn == s.zone[z].tcp_conn
        tcp == s.tcp_state[conn]
    IN  IF tcp.total_bytes < LenPrefix
        THEN TcpReadFails(s, z)
             \cup UNION {
                LET s1 == [s EXCEPT !.tcp_state[conn].total_bytes = @ + received]
                IN  IF s1.tcp_state[conn].total_bytes < LenPrefix
                    THEN {s1}
                    ELSE UNION {
                        LET s2 == [s1 EXCEPT !.tcp_state[conn].msglen = len]
                        IN  IF len > QIOBUFSZ
                            THEN xfrd_tcp_release(
                                    Log(s2, <<"tcp_too_big", z>>), z)
                            ELSE xfrd_tcp_read_body(
                                    [s2 EXCEPT !.tcp_state[conn].limit = len], z)
                        : len \in s.env.lens }
                : received \in Moved(s, LenPrefix - tcp.total_bytes) }
        ELSE xfrd_tcp_read_body(s, z)

xfrd_tcp_read_body(s, z) ==
    LET conn == s.zone[z].tcp_conn
        tcp == s.tcp_state[conn]
        reading ==
            UNION {
                LET s1 == [s EXCEPT !.tcp_state[conn].total_bytes = @ + received,
                                    !.tcp_state[conn].position = @ + received]
                    t1 == s1.tcp_state[conn]
                    \* buffer_flip
                    s2 == [s1 EXCEPT !.tcp_state[conn].limit = t1.position,
                                     !.tcp_state[conn].position = 0]
                IN  IF buffer_remaining(t1) > 0
                    THEN {s1}
                    ELSE UNION {
                        Then(xfrd_handle_received_xfr_packet(
                                Log(s2, <<"tcp_message", z>>), z, pkt),
                             LAMBDA r : IF r.aborted # "" THEN {r}
                                        ELSE xfrd_tcp_release(r, z))
                        : pkt \in Packets(s, s.zone[z].query_id) }
                : received \in Moved(s, buffer_remaining(tcp)) }
    IN  IF ~(buffer_remaining(tcp) > 0)
        \* where assert() is compiled out, the read of 0 bytes returns 0 or -1
        THEN {Abort(s, "read: buffer_remaining > 0")}
             \cup xfrd_tcp_release(Log(s, <<"tcp_read_failed", z>>), z)
             \cup xfrd_tcp_release(Log(s, <<"tcp_eof", z>>), z)
        ELSE TcpReadFails(s, z) \cup reading

(***************************************************************************)
(* xfrd_tcp_release: the slot goes to the head of the wait queue, if any.  *)
(***************************************************************************)
\* a variant that never hands the slot over
TcpHandOverNever(s) == FALSE

\* the test of xfrd_tcp_release: hand the slot over
TcpHandOver(s) ==
    s.tcp_count = XFRD_MAX_TCP /\ s.tcp_waiting_first # NULL

\* a variant that leaves tcp_waiting_last as it is
TcpPopWaitingKeepLast(s, conn) ==
    LET w == s.tcp_waiting_first IN
    [s EXCEPT !.tcp_waiting_first = s.zone[w].tcp_waiting_next,
              !.zone[w].tcp_waiting_next = NULL,
              !.zone[w].tcp_conn = conn,
              !.zone[w].tcp_waiting = 0,
              !.arrivals = SelectSeq(@, LAMBDA x : x # w)]

\* lines 1407-1416: pop the first waiting zone and give it the slot
TcpPopWaiting(s, conn) ==
    LET w == s.tcp_waiting_first IN
    [s EXCEPT !.tcp_waiting_last = IF @ = w THEN NULL ELSE @,
              !.tcp_waiting_first = s.zone[w].tcp_waiting_next,
              !.zone[w].tcp_waiting_next = NULL,
              !.zone[w].tcp_conn = conn,
              !.zone[w].tcp_waiting = 0,
              !.arrivals = SelectSeq(@, LAMBDA x : x # w)]

\* a variant that leaves the descriptor of the slot as it is
TcpFreeSlotKeepFd(s, z) ==
    [s EXCEPT !.zone[z].tcp_conn = -1,
              !.zone[z].tcp_waiting = 0,
              !.zone[z].fd = -1,
              !.zone[z].event_types = {NETIO_EVENT_READ, NETIO_EVENT_TIMEOUT}]

\* lines 1396-1404: the zone gives the slot up and its descriptor is closed
TcpFreeSlot(s, z) ==
    LET conn == s.zone[z].tcp_conn IN
    [s EXCEPT !.zone[z].tcp_conn = -1,
              !.zone[z].tcp_waiting = 0,
              !.zone[z].fd = -1,
              !.zone[z].event_types = {NETIO_EVENT_READ, NETIO_EVENT_TIMEOUT},
              !.open_fds = @ \ {s.tcp_state[conn].fd},
              !.tcp_state[conn].fd = -1]

xfrd_tcp_release(s, z) ==
    LET conn == s.zone[z].tcp_conn
        s2 == Log(TcpFreeSlot(s, z),
                  <<"release", z, conn, s.arrivals, s.tcp_count>>)
        w == s2.tcp_waiting_first
        s3 == TcpPopWaiting(s2, conn)
        s4 == [s2 EXCEPT !.tcp_count = @ - 1]
    IN  IF conn = -1 THEN {Abort(s, "release: tcp_conn != -1")}
        ELSE IF s.zone[z].tcp_waiting # 0
        THEN {Abort(s, "release: tcp_waiting == 0")}
        ELSE IF TcpHandOver(s2)
        THEN xfrd_tcp_start(
                Log(s3, <<"pop", w, s3.zone[w].tcp_conn, s3.tcp_count,
                          s3.zone[w].tcp_waiting>>), w)
        ELSE IF s4.tcp_count < 0
        THEN {Abort(s4, "release: tcp_count >= 0")}
        ELSE {Log(s4, <<"free", conn, s4.tcp_count>>)}

(***************************************************************************)
(* xfrd_handle_received_xfr_packet                                         *)
(***************************************************************************)
\* a variant of IsOldSerial that lets every serial through
IsOldSerialNever(zn, new_serial) == FALSE

\* the test that drops a transfer to a serial older than the one on disk
IsOldSerial(zn, new_serial) ==
    /\ zn.soa_disk_acquired # 0
    /\ compare_serial(zn.soa_disk.serial, new_serial) > 0

\* a variant of CommitSoa that leaves the zone state as it was
CommitSoaKeepState(s, z, new_serial) ==
    LET s1 == [s EXCEPT !.zone[z].soa_disk_acquired = s.now,
                        !.zone[z].soa_disk.serial = new_serial]
    IN  xfrd_set_timer(s1, z, s1.zone[z].soa_disk_acquired
                                + s1.zone[z].soa_disk.refresh)

\* lines 1543-1546: the disk SOA takes the new serial
CommitSoa(s, z, new_serial) ==
    LET s1 == [s EXCEPT !.zone[z].soa_disk_acquired = s.now,
                        !.zone[z].soa_disk.serial = new_serial,
                        !.zone[z].zone_state = xfrd_zone_ok]
    IN  xfrd_set_timer(s1, z, s1.zone[z].soa_disk_acquired
                                + s1.zone[z].soa_disk.refresh)

\* a variant of RenewSoa that leaves the zone state as it was
RenewSoaKeepState(s, z, new_serial) ==
    LET s1 == [s EXCEPT !.zone[z].soa_disk_acquired = s.now,
                        !.zone[z].soa_nsd_acquired =
                            IF s.zone[z].soa_nsd.serial = new_serial
                            THEN s.now ELSE @]
    IN  xfrd_set_timer(s1, z, s1.zone[z].soa_disk_acquired
                                + s1.zone[z].soa_disk.refresh)

\* a variant of NoNotifyPending that takes the lease whatever was notified
NoNotifyPendingLax(zn) == TRUE

\* the test of line 1495: no notification is waiting to be served
NoNotifyPending(zn) == zn.soa_notified_acquired = 0

\* lines 1495-1503: the same serial is a new lease on the SOA
RenewSoa(s, z, new_serial) ==
    LET s1 == [s EXCEPT !.zone[z].soa_disk_acquired = s.now,
                        !.zone[z].soa_nsd_acquired =
                            IF s.zone[z].soa_nsd.serial = new_serial
                            THEN s.now ELSE @,
                        !.zone[z].zone_state = xfrd_zone_ok]
    IN  xfrd_set_timer(s1, z, s1.zone[z].soa_disk_acquired
                                + s1.zone[z].soa_disk.refresh)

\* a variant of PromoteToTcp that only logs the truncated reply
PromoteToTcpNever(s, z) == {Log(s, <<"tc", z>>)}

\* lines 1511-1517: a truncated reply; retry over TCP
PromoteToTcp(s, z) ==
    IF s.zone[z].tcp_conn = -1
    THEN xfrd_tcp_obtain(Log(s, <<"tc", z>>), z)
    ELSE {Log(s, <<"tc", z>>)}

\* a variant of DropReply that has the zone try again at once
DropReplyRetry(s, z, why) ==
    xfrd_set_refresh_now(Log(s, <<why, z>>), z, xfrd_zone_refreshing)

\* lines 1439-1483: a reply that fails a test is logged and dropped
DropReply(s, z, why) == Log(s, <<why, z>>)

xfrd_handle_received_xfr_packet(s, z, pkt) ==
    LET zn == s.zone[z] IN
    IF pkt.id # zn.query_id THEN {DropReply(s, z, "bad_id")}
    ELSE IF pkt.rcode # 0 THEN {DropReply(s, z, "bad_rcode")}
    ELSE IF ~pkt.qd_ok THEN {DropReply(s, z, "bad_question")}
    ELSE IF pkt.ancount = 0 THEN {DropReply(s, z, "no_answer")}
    ELSE IF ~pkt.soa_ok THEN {DropReply(s, z, "no_soa")}
    ELSE IF ~pkt.rr_ok THEN {DropReply(s, z, "bad_rr")}
    ELSE IF IsOldSerial(zn, pkt.serial) THEN {Log(s, <<"old_serial", z>>)}
    ELSE IF zn.soa_disk_acquired # 0 /\ zn.soa_disk.serial = pkt.serial
    THEN {IF NoNotifyPending(zn)
          THEN RenewSoa(Log(s, <<"current_serial", z>>), z, pkt.serial)
          ELSE Log(s, <<"current_serial", z>>)}
    ELSE IF pkt.tc THEN PromoteToTcp(s, z)
    ELSE IF pkt.ancount < 2 THEN {Log(s, <<"too_short", z>>)}
    ELSE {CommitSoa(
            Log(Log(s, <<"diff_write_packet", z>>),
                <<"diff_write_commit", z, pkt.serial>>), z, pkt.serial)}

(***************************************************************************)
(* xfrd_udp_read: the probe socket is closed whatever recvfrom returns.    *)
(***************************************************************************)
\* a variant of xfrd_udp_read that keeps the probe socket of a reply it
\* hands to the reply handler
xfrd_udp_read_keep(s, z) ==
    LET s1 == [close(s, s.zone[z].fd) EXCEPT !.zone[z].fd = -1] IN
    (IF MayFail(s, "recvfrom")
     THEN {Log(s1, <<"recvfrom_failed", z>>)} ELSE {})
    \cup UNION { xfrd_handle_received_xfr_packet(s, z, pkt)
                 : pkt \in Packets(s, s.zone[z].query_id) }

xfrd_udp_read(s, z) ==
    LET s1 == [close(s, s.zone[z].fd) EXCEPT !.zone[z].fd = -1] IN
    (IF MayFail(s, "recvfrom")
     THEN {Log(s1, <<"recvfrom_failed", z>>)} ELSE {})
    \cup UNION { xfrd_handle_received_xfr_packet(s1, z, pkt)
                 : pkt \in Packets(s, s.zone[z].query_id) }

(***************************************************************************)
(* xfrd_handle_zone, the event handler of a zone.                          *)
(***************************************************************************)
\* lines 353-360: use a different master
NextMaster(s, z) ==
    IF s.zone[z].master # -1 /\ s.zone[z].master + 1 < s.env.masters
    THEN [s EXCEPT !.zone[z].master = @ + 1, !.zone[z].master_num = @ + 1]
    ELSE [s EXCEPT !.zone[z].master = 0, !.zone[z].master_num = 0]

\* the test of line 369, under which the handler marks the zone expired
ZoneExpiredTest(s, z) ==
    s.zone[z].soa_disk_acquired + s.zone[z].soa_disk.expire > s.now

\* lines 373-375
ZoneExpire(s, z) ==
    xfrd_set_timer_retry(
        xfrd_send_expiry_notification(
            [s EXCEPT !.zone[z].zone_state = xfrd_zone_expired], z), z)

\* lines 340-377: the timer of a zone without a TCP slot went off
xfrd_handle_zone_timeout(s, z) ==
    LET s1 == Log(s, <<"timeout", z>>)
        s2 == IF s1.zone[z].fd # -1
              THEN [close(s1, s1.zone[z].fd) EXCEPT !.zone[z].fd = -1]
              ELSE s1
    IN  Then(xfrd_set_timer_retry(s2, z),
             LAMBDA s3 :
                IF s3.zone[z].tcp_waiting # 0
                THEN {Log(s3, <<"skips_retry", z>>)}
                ELSE LET s4 == NextMaster(s3, z) IN
                     IF s4.zone[z].soa_disk_acquired = 0
                     THEN xfrd_tcp_obtain(s4, z)
                     ELSE Then(xfrd_send_ixfr_request_udp(s4, z),
                               LAMBDA s5 : IF ZoneExpiredTest(s5, z)
                                           THEN ZoneExpire(s5, z)
                                           ELSE {s5}))

xfrd_handle_zone(s, z, event_types) ==
    LET conn == s.zone[z].tcp_conn IN
    IF conn # -1
    THEN IF s.tcp_state[conn].is_reading # 0
            /\ NETIO_EVENT_READ \in event_types
         THEN xfrd_tcp_read(
                xfrd_set_timer(s, z, s.now + XFRD_TCP_TIMEOUT), z)
         ELSE IF NETIO_EVENT_WRITE \in event_types
         THEN xfrd_tcp_write(
                xfrd_set_timer(s, z, s.now + XFRD_TCP_TIMEOUT), z)
         ELSE IF NETIO_EVENT_TIMEOUT \in event_types
         THEN Then(xfrd_set_timer_retry(Log(s, <<"tcp_timeout", z>>), z),
                   LAMBDA s1 : xfrd_tcp_release(s1, z))
         ELSE {s}
    ELSE IF NETIO_EVENT_READ \in event_types
    THEN xfrd_udp_read(s, z)
    ELSE xfrd_handle_zone_timeout(s, z)

(***************************************************************************)
(* xfrd_init_zones and xfrd_tcp_create.                                    *)
(***************************************************************************)
NoSoa == [serial |-> 0, refresh |-> 0, retry |-> 0, expire |-> 0]

\* lines 249-279: the zone as xfrd_init_zones makes it from the SOA of the
\* zone in the database (NoSoa: the database has no SOA for it)
InitZone(dbsoa) ==
    [zone_state |-> xfrd_zone_refreshing, master |-> 0, master_num |-> 0,
     soa_nsd |-> dbsoa,
     soa_nsd_acquired |-> IF dbsoa = NoSoa THEN 0 ELSE StartTime,
     soa_disk |-> dbsoa,
     soa_disk_acquired |-> IF dbsoa = NoSoa THEN 0 ELSE StartTime,
     soa_notified |-> NoSoa, soa_notified_acquired |-> 0,
     fd |-> -1, handler_timeout |-> TRUE, timeout |-> StartTime,
     event_types |-> {NETIO_EVENT_READ, NETIO_EVENT_TIMEOUT},
     tcp_waiting |-> 0, tcp_waiting_next |-> NULL, tcp_conn |-> -1,
     query_id |-> 0]

\* xfrd_tcp_create
InitTcp ==
    [fd |-> -1, is_reading |-> 0, total_bytes |-> 0, msglen |-> 0,
     position |-> 0, limit |-> QIOBUFSZ]

(***************************************************************************)
(* xfrd_handle_incoming_soa                                                *)
(***************************************************************************)
\* lines 865-880: where the zone stands once the disk SOA has been loaded
IncomingSoaLoaded(s, z) ==
    LET zn == s.zone[z] IN
    IF s.now - zn.soa_disk_acquired < zn.soa_disk.refresh
    THEN xfrd_set_timer([s EXCEPT !.zone[z].zone_state = xfrd_zone_ok], z,
                        zn.soa_disk_acquired + zn.soa_disk.refresh)
    ELSE IF s.now - zn.soa_disk_acquired < zn.soa_disk.expire
    THEN xfrd_set_refresh_now(s, z, xfrd_zone_refreshing)
    ELSE xfrd_set_refresh_now(s, z, xfrd_zone_expired)

xfrd_handle_incoming_soa(s, z, soa, acquired) ==
    LET zn == s.zone[z] IN
    IF soa.serial = zn.soa_nsd.serial THEN s
    ELSE IF soa.serial = zn.soa_disk.serial
    THEN LET s1 == Log([s EXCEPT !.zone[z].soa_nsd = zn.soa_disk,
                                 !.zone[z].soa_nsd_acquired =
                                      zn.soa_disk_acquired],
                       <<"notify", z>>)
             s2 == xfrd_send_expiry_notification(IncomingSoaLoaded(s1, z), z)
         IN  IF s2.zone[z].soa_notified_acquired # 0
                /\ compare_serial(s2.zone[z].soa_disk.serial,
                                  s2.zone[z].soa_notified.serial) > 1
             THEN [s2 EXCEPT !.zone[z].soa_notified_acquired = 0]
             ELSE s2
    ELSE xfrd_set_refresh_now(
            [Log(s, <<"unknown_source", z>>) EXCEPT
                !.zone[z].soa_nsd = soa,
                !.zone[z].soa_disk = soa,
                !.zone[z].soa_nsd_acquired = acquired,
                !.zone[z].soa_disk_acquired = acquired,
                !.zone[z].soa_notified_acquired = 0],
            z, xfrd_zone_refreshing)

(***************************************************************************)
(* xfrd_read_state.  The state file is a record: does it exist, is its     *)
(* header well formed, its filetime, its zone blocks, is its trailer well  *)
(* formed.  A zone block says whether it parses to its end (ok), the zone  *)
(* it names (NULL: a zone that is not configured) and the fields read.     *)
(***************************************************************************)
FutureSlack == 15       \* a time of the file may be this far in the future

\* the state number of the file (xfrd.h: enum xfrd_zone_state)
ZoneStateOf(n) ==
    CASE n = 0 -> xfrd_zone_ok
      [] n = 1 -> xfrd_zone_refreshing
      [] OTHER -> xfrd_zone_expired

\* xfrd_read_state_soa: no SOA follows an acquired time of 0
ReadStateSoa(acquired, soa) == IF acquired = 0 THEN NoSoa ELSE soa

\* lines 665-723: a zone block that was read to its end is taken over
ReadStateZone(s, z, b) ==
    LET soa_nsd_read == ReadStateSoa(b.soa_nsd_acquired, b.soa_nsd)
        soa_disk_read == ReadStateSoa(b.soa_disk_acquired, b.soa_disk)
        soa_notified_read ==
            ReadStateSoa(b.soa_notified_acquired, b.soa_notified)
        s1 == [s EXCEPT !.zone[z].zone_state = ZoneStateOf(b.state),
                        !.zone[z].master_num = b.master,
                        !.zone[z].timeout = b.next_timeout,
                        !.zone[z].master =
                            IF b.master < s.env.masters THEN b.master ELSE 0]
        s2 == IF b.master < s.env.masters THEN s1
              ELSE Log(s1, <<"masters_changed", z>>)
        s3 == IF \/ b.next_timeout = 0
                 \/ b.next_timeout - b.soa_disk_acquired > soa_disk_read.refresh
                 \/ b.soa_notified_acquired # 0
              THEN xfrd_set_refresh_now(s2, z, xfrd_zone_refreshing)
              ELSE s2
        s4 == IF /\ b.soa_disk_acquired # 0
                 /\ s3.now - b.soa_disk_acquired > soa_disk_read.expire
              THEN xfrd_set_refresh_now(s3, z, xfrd_zone_expired)
              ELSE s3
        incoming_soa == s4.zone[z].soa_nsd
        incoming_acquired == s4.zone[z].soa_nsd_acquired
        s5 == [s4 EXCEPT !.zone[z].soa_nsd = soa_nsd_read,
                         !.zone[z].soa_disk = soa_disk_read,
                         !.zone[z].soa_notified = soa_notified_read,
                         !.zone[z].soa_nsd_acquired = b.soa_nsd_acquired,
                         !.zone[z].soa_disk_acquired = b.soa_disk_acquired,
                         !.zone[z].soa_notified_acquired =
                              b.soa_notified_acquired]
        s6 == IF incoming_acquired # 0
              THEN xfrd_handle_incoming_soa(s5, z, incoming_soa,
                                            incoming_acquired)
              ELSE s5
    IN  xfrd_send_expiry_notification(s6, z)

\* a variant that trusts every acquired time of a zone block
BlockInFutureNever(s, b) == FALSE

\* lines 654-656: an acquired time of the block lies too far in the future
BlockInFuture(s, b) ==
    \/ b.soa_nsd_acquired > s.now + FutureSlack
    \/ b.soa_disk_acquired > s.now + FutureSlack
    \/ b.soa_notified_acquired > s.now + FutureSlack

RECURSIVE ReadStateZones(_, _, _)
\* lines 605-724: the loop over the zone blocks, from block i on; the
\* result says whether the loop came to its end
ReadStateZones(s, blocks, i) ==
    IF i > Len(blocks) THEN [st |-> s, ret |-> 1]
    ELSE LET b == blocks[i] IN
         IF ~b.ok THEN [st |-> Log(s, <<"corrupt">>), ret |-> 0]
         ELSE IF b.name \notin DOMAIN s.zone
         THEN ReadStateZones(Log(s, <<"not_configured">>), blocks, i + 1)
         ELSE IF BlockInFuture(s, b)
         THEN ReadStateZones(Log(s, <<"future", b.name>>), blocks, i + 1)
         ELSE ReadStateZones(ReadStateZone(s, b.name, b), blocks, i + 1)

xfrd_read_state(s, file) ==
    IF ~file.exists THEN Log(s, <<"no_file">>)
    ELSE IF ~file.header_ok \/ file.filetime > s.now + FutureSlack
    THEN Log(s, <<"corrupt">>)
    ELSE LET r == ReadStateZones(s, file.blocks, 1) IN
         IF r.ret = 0 THEN r.st
         ELSE IF ~file.trailer_ok THEN Log(r.st, <<"corrupt">>)
         ELSE Log(r.st, <<"read_zones">>)

(***************************************************************************)
(* xfrd_write_state.  The file is text: a number is written with %d and    *)
(* read back with atoi, a "#" starts a comment that runs to the end of its *)
(* line.  neato_timeout writes the comments.  It ends the line when the    *)
(* time it prints is 0, so that what the caller prints after it starts a   *)
(* line of its own and is read back as tokens of the file.                 *)
(***************************************************************************)
\* the state number written for a zone (xfrd.h: enum xfrd_zone_state)
ZoneStateNum(st) ==
    CASE st = xfrd_zone_ok -> 0
      [] st = xfrd_zone_refreshing -> 1
      [] OTHER -> 2

\* lines 741-744: neato_timeout ends the line after a time of 0 s
NeatoEndsLine(secs) == secs = 0

\* lines 771-777: the SOA line can be read after its acquired time: the
\* word "ago" is still part of the comment "# was ... ago"
WriteStateSoaHead(s, acquired) ==
    acquired = 0 \/ ~NeatoEndsLine(s.now - acquired)

\* lines 793-798: what follows the SOA can be read: the comment
\* "# refresh = ... retry = ... expire = ... minimum = ..." is one line
WriteStateSoaTail(acquired, soa) ==
    \/ acquired = 0
    \/ /\ ~NeatoEndsLine(soa.refresh)
       /\ ~NeatoEndsLine(soa.retry)
       /\ ~NeatoEndsLine(soa.expire)

\* lines 820-841: the block written for zone z, as the reader will see it;
\* before says whether the text before the block ended in a comment
WriteStateZone(s, z, before) ==
    LET zn == s.zone[z] IN
    [ok |-> /\ before
            /\ WriteStateSoaHead(s, zn.soa_nsd_acquired)
            /\ WriteStateSoaTail(zn.soa_nsd_acquired, zn.soa_nsd)
            /\ WriteStateSoaHead(s, zn.soa_disk_acquired)
            /\ WriteStateSoaTail(zn.soa_disk_acquired, zn.soa_disk)
            /\ WriteStateSoaHead(s, zn.soa_notified_acquired),
     name |-> z, state |-> ZoneStateNum(zn.zone_state),
     master |-> zn.master_num,
     next_timeout |-> IF zn.handler_timeout THEN zn.timeout ELSE 0,
     soa_nsd_acquired |-> zn.soa_nsd_acquired,
     soa_nsd |-> ReadStateSoa(zn.soa_nsd_acquired, zn.soa_nsd),
     soa_disk_acquired |-> zn.soa_disk_acquired,
     soa_disk |-> ReadStateSoa(zn.soa_disk_acquired, zn.soa_disk),
     soa_notified_acquired |-> zn.soa_notified_acquired,
     soa_notified |-> ReadStateSoa(zn.soa_notified_acquired,
                                   zn.soa_notified)]

\* the file on disk after xfrd_write_state: the new file, or the file that
\* was there when fopen fails
xfrd_write_state(s, file) ==
    LET n == Cardinality(DOMAIN s.zone)
        after(z) == z = 0 \/ WriteStateSoaTail(s.zone[z].soa_notified_acquired,
                                               s.zone[z].soa_notified)
        written ==
            [exists |-> TRUE, header_ok |-> TRUE, filetime |-> s.now,
             blocks |-> [z \in 1 .. n |-> WriteStateZone(s, z, after(z - 1))],
             trailer_ok |-> after(n)]
        s1 == Log(s, <<"write_state">>)
    IN  {[st |-> s1, file |-> written]} \cup
        {[st |-> Log(s1, <<"fopen_failed">>), file |-> file] :
            x \in {"fopen"} \cap s.env.faults}

(***************************************************************************)
(* The environment of a specification: the zones configured, the SOAs the  *)
(* database may hold for a zone, the state files that may be on disk, the  *)
(* system calls that may fail, whether read() and write() may move fewer   *)
(* bytes than asked, and the serials and message lengths a master may      *)
(* send.                                                                   *)
(***************************************************************************)
NoFile ==
    [exists |-> FALSE, header_ok |-> FALSE, filetime |-> 0, blocks |-> <<>>,
     trailer_ok |-> FALSE]

File(blocks) ==
    [exists |-> TRUE, header_ok |-> TRUE, filetime |-> StartTime,
     blocks |-> blocks, trailer_ok |-> TRUE]

Soa(serial) == [serial |-> serial, refresh |-> 2, retry |-> 2, expire |-> 4]

\* a zone block as xfrd_write_state writes it for a zone that is fine
Block(z, state, next_timeout, nsd_serial, disk_serial) ==
    [ok |-> TRUE, name |-> z, state |-> state, master |-> 0,
     next_timeout |-> next_timeout,
     soa_nsd_acquired |-> StartTime, soa_nsd |-> Soa(nsd_serial),
     soa_disk_acquired |-> StartTime, soa_disk |-> Soa(disk_serial),
     soa_notified_acquired |-> 0, soa_notified |-> NoSoa]

\* every second up to MaxFineTime, then not before the first TCP deadline
FineClock ==
    (StartTime .. MaxFineTime) \cup ((StartTime + XFRD_TCP_TIMEOUT) .. MaxTime)

\* the start and the first TCP deadline
CoarseClock == {StartTime, StartTime + XFRD_TCP_TIMEOUT}

AllFaults ==
    {"socket", "sendto", "connect", "write", "read", "eof", "eagain",
     "recvfrom", "reply"}

(***************************************************************************)
(* The event loop.                                                         *)
(***************************************************************************)
InitOf(env) ==
    /\ now = StartTime
    /\ zone \in {[z \in DOMAIN db |-> InitZone(db[z])] : db \in env.dbs}
    /\ tcp_count = 0
    /\ tcp_waiting_first = NULL
    /\ tcp_waiting_last = NULL
    /\ tcp_state = [i \in Slots |-> InitTcp]
    /\ open_fds = {}
    /\ aborted = ""
    /\ arrivals = <<>>
    /\ statefile \in env.files
    /\ pc = "read_state"
    /\ last = [ev |-> "init", z |-> NULL, log |-> <<>>]

\* the handler of event ev of zone z returned in state s
Deliver(s, ev, z) ==
    /\ now' = s.now
    /\ zone' = s.zone
    /\ tcp_count' = s.tcp_count
    /\ tcp_waiting_first' = s.tcp_waiting_first
    /\ tcp_waiting_last' = s.tcp_waiting_last
    /\ tcp_state' = s.tcp_state
    /\ open_fds' = s.open_fds
    /\ aborted' = s.aborted
    /\ arrivals' = s.arrivals
    /\ last' = [ev |-> ev, z |-> z, log |-> s.log]

\* xfrd_init: xfrd_read_state() before xfrd_main()
ReadState(env) ==
    /\ pc = "read_state"
    /\ Deliver(xfrd_read_state(State(env), statefile), "read_state", NULL)
    /\ pc' = "main"
    /\ UNCHANGED statefile

\* xfrd_main is in netio_dispatch; pc is "shutdown" from the time the
\* shutdown flag or a signal hint is set: the handlers that are left of
\* this call of netio_dispatch still run
Running == pc \in {"main", "shutdown"} /\ aborted = ""

\* netio_dispatch: the timeout of a handler has passed
ZoneTimeout(env, z) ==
    /\ Running
    /\ zone[z].handler_timeout
    /\ NETIO_EVENT_TIMEOUT \in zone[z].event_types
    /\ zone[z].timeout <= now
    /\ \E s \in xfrd_handle_zone(State(env), z, {NETIO_EVENT_TIMEOUT}) :
            Deliver(s, "timeout", z)
    /\ UNCHANGED <<pc, statefile>>

\* netio_dispatch: the descriptor of a handler is readable
ZoneReadable(env, z) ==
    /\ Running
    /\ zone[z].fd # -1
    /\ NETIO_EVENT_READ \in zone[z].event_types
    /\ \E s \in xfrd_handle_zone(State(env), z, {NETIO_EVENT_READ}) :
            Deliver(s, "read", z)
    /\ UNCHANGED <<pc, statefile>>

\* netio_dispatch: the descriptor of a handler is writable
ZoneWritable(env, z) ==
    /\ Running
    /\ zone[z].fd # -1
    /\ NETIO_EVENT_WRITE \in zone[z].event_types
    /\ \E s \in xfrd_handle_zone(State(env), z, {NETIO_EVENT_WRITE}) :
            Deliver(s, "write", z)
    /\ UNCHANGED <<pc, statefile>>

\* time passes between two calls of netio_dispatch: the process runs next
\* at the next second of env.clock
Tick(env) ==
    /\ Running
    /\ pc = "main"
    /\ \E t \in env.clock :
        /\ t > now
        /\ \A u \in env.clock : u > now => t <= u
        /\ now' = t
    /\ last' = [ev |-> "tick", z |-> NULL, log |-> <<>>]
    /\ UNCHANGED <<zone, tcp_count, tcp_waiting_first, tcp_waiting_last,
                   tcp_state, open_fds, aborted, arrivals, pc, statefile>>

\* a variant that takes every command for a command to stop
IpcSetsShutdownAlways(input) == TRUE

\* lines 196-207: what was read from the parent sets xfrd->shutdown: the
\* parent closed the channel (a read of length 0), NSD_QUIT, NSD_SHUTDOWN
IpcSetsShutdown(input) == input \in {"closed", "quit", "shutdown"}

\* xfrd_handle_ipc: the parent channel is readable; a command of the parent
\* is read whole
HandleIpc(env) ==
    /\ Running
    /\ pc = "main"
    /\ \E input \in env.ipc :
        /\ pc' = IF IpcSetsShutdown(input) THEN "shutdown" ELSE pc
        /\ last' = [ev |-> "ipc", z |-> NULL, log |-> << <<"ipc", input>> >>]
    /\ UNCHANGED <<now, zone, tcp_count, tcp_waiting_first, tcp_waiting_last,
                   tcp_state, open_fds, aborted, arrivals, statefile>>

\* a signal handler of the process sets signal_hint_quit or
\* signal_hint_shutdown
SignalHint(env) ==
    /\ Running
    /\ pc = "main"
    /\ pc' = "shutdown"
    /\ last' = [ev |-> "signal", z |-> NULL, log |-> <<>>]
    /\ UNCHANGED <<now, zone, tcp_count, tcp_waiting_first, tcp_waiting_last,
                   tcp_state, open_fds, aborted, arrivals, statefile>>

\* lines 163-178: netio_dispatch has returned, the loop ends and
\* xfrd_shutdown writes the state file and exits
LoopExit(env) ==
    /\ pc = "shutdown"
    /\ aborted = ""
    /\ \E r \in xfrd_write_state(State(env), statefile) :
        /\ Deliver(r.st, "shutdown", NULL)
        /\ statefile' = r.file
    /\ pc' = "exit"

NextOf(env) ==
    \/ ReadState(env)
    \/ \E z \in DOMAIN zone : ZoneTimeout(env, z)
    \/ \E z \in DOMAIN zone : ZoneReadable(env, z)
    \/ \E z \in DOMAIN zone : ZoneWritable(env, z)
    \/ Tick(env)

(***************************************************************************)
(* Spec: one zone, every clock second, every fault but the two that leave  *)
(* a descriptor open (a failed sendto, a failed connect).                  *)
(***************************************************************************)
EnvOne ==
    [masters |-> NumMasters, dbs |-> [1 .. 1 -> {NoSoa, Soa(1)}],
     files |-> {NoFile, File(<<Block(1, 0, StartTime + 2, 1, 0)>>)},
     faults |-> AllFaults \ {"sendto", "connect"}, partial |-> TRUE,
     serials |-> Serials, lens |-> {0, QIOBUFSZ, QIOBUFSZ + 1},
     clock |-> FineClock]

Init == InitOf(EnvOne)
Next == NextOf(EnvOne)
Spec == Init /\ [][Next]_vars

(***************************************************************************)
(* SpecPool: NumZones zones compete for the TCP pool.                      *)
(***************************************************************************)
EnvPool ==
    [masters |-> 1,
     dbs |-> {[z \in Zones |-> IF z = 1 THEN Soa(1) ELSE NoSoa]},
     files |-> {NoFile},
     faults |-> {"connect", "eagain"}, partial |-> FALSE,
     serials |-> {2}, lens |-> {QIOBUFSZ}, clock |-> CoarseClock]

InitPool == InitOf(EnvPool)
NextPool == NextOf(EnvPool)
SpecPool == InitPool /\ [][NextPool]_vars

\* time does not stop while the process runs
SpecPoolFair == SpecPool /\ WF_vars(Tick(EnvPool))

(***************************************************************************)
(* SpecFile: one zone started from the state files an earlier run may have *)
(* left: a zone that was notified of a newer serial, a master index past   *)
(* the end of the list or on its last entry, a timer that has passed, a    *)
(* zone without a SOA, a disk SOA that has expired.                        *)
(***************************************************************************)
\* the zone was notified of serial 2 and has not got it yet
BlockNotified ==
    [Block(1, 1, StartTime, 1, 1) EXCEPT
        !.soa_nsd_acquired = StartTime - 1,
        !.soa_disk_acquired = StartTime - 1,
        !.soa_notified_acquired = StartTime - 1, !.soa_notified = Soa(2)]

\* the file was written when the zone had more masters than it has now
BlockMaster(masnum) ==
    [Block(1, 0, StartTime + 1, 1, 1) EXCEPT !.master = masnum]

\* the refresh timer of the zone went off while the daemon was down
BlockPast ==
    [Block(1, 0, StartTime - 1, 1, 1) EXCEPT
        !.soa_nsd_acquired = StartTime - 2,
        !.soa_disk_acquired = StartTime - 2]

\* the zone had no SOA and was waiting for its next attempt
BlockNoSoa ==
    [Block(1, 1, StartTime + 1, 0, 0) EXCEPT
        !.soa_nsd_acquired = 0, !.soa_nsd = NoSoa,
        !.soa_disk_acquired = 0, !.soa_disk = NoSoa]

\* the disk SOA of the zone expired while the daemon was down
BlockExpired ==
    [Block(1, 0, StartTime - 1, 1, 1) EXCEPT
        !.soa_nsd_acquired = StartTime - 2,
        !.soa_disk_acquired = StartTime - 2,
        !.soa_nsd.expire = 1, !.soa_disk.expire = 1]

EnvFile ==
    [masters |-> NumMasters, dbs |-> [1 .. 1 -> {NoSoa, Soa(1)}],
     files |-> {NoFile} \cup
               {File(<<b>>) : b \in {BlockNotified, BlockMaster(NumMasters),
                                     BlockMaster(NumMasters - 1), BlockPast,
                                     BlockNoSoa, BlockExpired}},
     faults |-> {"eagain", "read"}, partial |-> FALSE,
     serials |-> Serials, lens |-> {QIOBUFSZ}, clock |-> FineClock]

InitFile == InitOf(EnvFile)
NextFile == NextOf(EnvFile)
SpecFile == InitFile /\ [][NextFile]_vars

(***************************************************************************)
(* SpecStart: two zones started from state files that are damaged: a block *)
(* that does not parse, a block of a zone that is not configured, a block  *)
(* with an acquired time in the future, a damaged header or trailer, a     *)
(* filetime in the future.                                                 *)
(***************************************************************************)
\* the zone was fine and waits for the refresh timer of its SOA
BlockGood(z) == Block(z, 0, StartTime + 1, 1, 1)

\* the files: a block may break off before its end (bad), may hold a disk
\* SOA acquired on a clock that ran ahead (future), or may be of a zone
\* that was taken out of the configuration (gone)
StartFiles ==
    LET bad(z) == [BlockGood(z) EXCEPT !.ok = FALSE]
        future(z) ==
            [BlockGood(z) EXCEPT
                !.soa_disk_acquired = StartTime + FutureSlack + 1]
        gone == BlockGood(NumZones + 1)
        whole == File(<<BlockGood(1), BlockGood(2)>>)
    IN  {File(<<BlockGood(1), bad(2)>>),
         File(<<bad(1), BlockGood(2)>>),
         File(<<gone, BlockGood(2)>>),
         File(<<future(1), BlockGood(2)>>),
         File(<<BlockGood(1), future(2)>>),
         [whole EXCEPT !.header_ok = FALSE],
         [whole EXCEPT !.filetime = StartTime + FutureSlack + 1],
         [whole EXCEPT !.trailer_ok = FALSE],
         whole}

EnvStart ==
    [masters |-> 1,
     dbs |-> {[z \in 1 .. 2 |-> IF z = 1 THEN Soa(1) ELSE NoSoa]},
     files |-> StartFiles,
     faults |-> {"eagain"}, partial |-> FALSE,
     serials |-> {2}, lens |-> {QIOBUFSZ}, clock |-> CoarseClock]

InitStart == InitOf(EnvStart)
NextStart == NextOf(EnvStart)
SpecStart == InitStart /\ [][NextStart]_vars

(***************************************************************************)
(* SpecShut: one zone, and the parent and the signals that stop the        *)
(* process.  The loop comes to its test when netio_dispatch returns.       *)
(***************************************************************************)
EnvShut ==
    [masters |-> NumMasters, dbs |-> [1 .. 1 -> {NoSoa, Soa(1)}],
     files |-> {NoFile, File(<<BlockNotified>>)},
     faults |-> {"eagain", "fopen"}, partial |-> FALSE,
     serials |-> {1, 2}, lens |-> {QIOBUFSZ}, clock |-> FineClock,
     ipc |-> {"quit", "shutdown", "other", "closed", "error"}]

InitShut == InitOf(EnvShut)

NextShut ==
    \/ NextOf(EnvShut)
    \/ HandleIpc(EnvShut)
    \/ SignalHint(EnvShut)
    \/ LoopExit(EnvShut)

SpecShut == InitShut /\ [][NextShut]_vars /\ WF_vars(LoopExit(EnvShut))

(***************************************************************************)
(* SpecUdp: two zones that probe by UDP, and a sendto that may fail.  No   *)
(* connect fails, so that every TCP descriptor that is open is the         *)
(* descriptor of a slot.                                                   *)
(***************************************************************************)
EnvUdp ==
    [masters |-> 1, dbs |-> {[z \in 1 .. 2 |-> Soa(1)]},
     files |-> {NoFile},
     faults |-> {"sendto", "eagain"}, partial |-> FALSE,
     serials |-> {2}, lens |-> {QIOBUFSZ}, clock |-> CoarseClock]

InitUdp == InitOf(EnvUdp)
NextUdp == NextOf(EnvUdp)
SpecUdp == InitUdp /\ [][NextUdp]_vars

(***************************************************************************)
(* The trace of the last event.                                            *)
(***************************************************************************)
Trace == last.log
TraceAt(i) == last.log[i]
Traced(op) == {i \in DOMAIN last.log : last.log[i][1] = op}

(***************************************************************************)
(* C1: after any sequence of events the number of zones with a TCP slot    *)
(* (tcp_conn != -1) never exceeds XFRD_MAX_TCP, and tcp_count stays        *)
(* within 0 .. XFRD_MAX_TCP.                                               *)
(***************************************************************************)
ZonesWithSlot == {z \in DOMAIN zone : zone[z].tcp_conn # -1}

C1_PoolBounded ==
    /\ Cardinality(ZonesWithSlot) <= XFRD_MAX_TCP
    /\ tcp_count \in 0 .. XFRD_MAX_TCP

\* the pool is full and a further zone asked for a slot
C1_Witness ==
    /\ Cardinality(ZonesWithSlot) = XFRD_MAX_TCP
    /\ \E i \in Traced("wait") : TRUE

(***************************************************************************)
(* C2: between events a zone has at most one outstanding operation: never  *)
(* two of {an open UDP probe socket with tcp_conn = -1, a TCP slot, a      *)
(* place in the wait queue}.                                               *)
(***************************************************************************)
UdpInFlight(z) == zone[z].fd # -1 /\ zone[z].tcp_conn = -1
HasTcpSlot(z) == zone[z].tcp_conn # -1
InWaitQueue(z) == zone[z].tcp_waiting = 1

C2_OneOperation ==
    \A z \in DOMAIN zone :
        /\ ~(UdpInFlight(z) /\ HasTcpSlot(z))
        /\ ~(UdpInFlight(z) /\ InWaitQueue(z))
        /\ ~(HasTcpSlot(z) /\ InWaitQueue(z))

\* a truncated UDP reply sent its zone from its probe to the wait queue
\* while another zone holds the slot
C2_Witness ==
    /\ last.ev = "read"
    /\ \E i \in Traced("tc") : InWaitQueue(TraceAt(i)[2])
    /\ \E b \in DOMAIN zone : HasTcpSlot(b)

(***************************************************************************)
(* C3: zones that ask for a slot while the pool is full are served in the  *)
(* order they came: every xfrd_tcp_release that finds zones waiting gives  *)
(* exactly the released slot to the zone that came first, leaves tcp_count *)
(* as it was and sets that zone's tcp_waiting to 0; a release that finds   *)
(* no zone waiting takes one off tcp_count.                                *)
(***************************************************************************)
C3_Fifo ==
    \A i \in Traced("release") :
        LET conn == TraceAt(i)[3]
            waiting == TraceAt(i)[4]
            count == TraceAt(i)[5]
        IN  /\ i < Len(Trace)
            /\ IF waiting # <<>>
               THEN TraceAt(i + 1) = <<"pop", Head(waiting), conn, count, 0>>
               ELSE TraceAt(i + 1) = <<"free", conn, count - 1>>

\* a release found two zones waiting
C3_Witness ==
    \E i \in Traced("release") :
        /\ Len(TraceAt(i)[4]) >= 2
        /\ TraceAt(i + 1)[1] = "pop"

(***************************************************************************)
(* C4: right after a transfer commit the zone is OK, soa_disk_acquired is  *)
(* now, soa_disk.serial is the new serial and the timer stands at          *)
(* soa_disk_acquired + soa_disk.refresh, whatever the state was and        *)
(* whether the reply came by UDP or by TCP.                                *)
(***************************************************************************)
C4_Commit ==
    \A i \in Traced("diff_write_commit") :
        LET zn == zone[TraceAt(i)[2]] IN
        /\ zn.zone_state = xfrd_zone_ok
        /\ zn.soa_disk_acquired = now
        /\ zn.soa_disk.serial = TraceAt(i)[3]
        /\ zn.handler_timeout
        /\ zn.timeout = zn.soa_disk_acquired + zn.soa_disk.refresh

\* a reply read from a TCP slot was committed after the first second
C4_Witness ==
    /\ last.ev = "read"
    /\ now > StartTime
    /\ \E i \in Traced("diff_write_commit") :
          \E j \in Traced("tcp_message") :
             j < i /\ TraceAt(j)[2] = TraceAt(i)[2]

(***************************************************************************)
(* C5: through the start-up read of the state file, the handling of an     *)
(* incoming SOA and the UDP and TCP replies, soa_disk is never replaced by *)
(* a serial older than the one it holds (compare_serial(current, new) >    *)
(* 0).                                                                     *)
(***************************************************************************)
C5_NeverOlderSerial ==
    [][\A z \in DOMAIN zone :
          (/\ zone[z].soa_disk_acquired # 0
           /\ zone'[z].soa_disk.serial # zone[z].soa_disk.serial)
          => compare_serial(zone[z].soa_disk.serial,
                            zone'[z].soa_disk.serial) <= 0]_vars

(***************************************************************************)
(* C6: after a failed attempt (a UDP probe timeout, a TCP timeout, a TCP   *)
(* read or write error or end of file, a malformed reply) of a zone with   *)
(* soa_disk_acquired != 0, the timer of the zone is at most                *)
(* soa_disk_acquired + soa_disk.expire.                                    *)
(***************************************************************************)
FailedAttempt ==
    {"timeout", "tcp_timeout", "tcp_read_failed", "tcp_write_failed",
     "tcp_eof", "bad_id", "bad_rcode", "bad_question", "no_answer", "no_soa",
     "bad_rr"}

C6_TimerBeforeExpire ==
    \A i \in DOMAIN Trace :
        TraceAt(i)[1] \in FailedAttempt =>
            LET zn == zone[TraceAt(i)[2]] IN
            zn.soa_disk_acquired # 0 =>
                zn.timeout <= zn.soa_disk_acquired + zn.soa_disk.expire

(***************************************************************************)
(* C7: when the timer of a probing zone (no TCP slot, not waiting for one) *)
(* with soa_disk_acquired != 0 that is not EXPIRED goes off, the timer     *)
(* left armed by the event is now + retry if now + retry < acquired +      *)
(* expire, and acquired + expire otherwise.                                *)
(***************************************************************************)
\* the step is the timer event of zone z, taken on the UDP path
ProbeTimeout(z) ==
    /\ last'.ev = "timeout"
    /\ last'.z = z
    /\ zone[z].tcp_conn = -1
    /\ zone[z].tcp_waiting = 0
    /\ zone[z].soa_disk_acquired # 0

C7_ProbeTimeoutTimer ==
    [][\A z \in DOMAIN zone :
          (ProbeTimeout(z) /\ zone[z].zone_state # xfrd_zone_expired)
          => zone'[z].timeout =
                IF now + zone[z].soa_disk.retry
                     < zone[z].soa_disk_acquired + zone[z].soa_disk.expire
                THEN now + zone[z].soa_disk.retry
                ELSE zone[z].soa_disk_acquired + zone[z].soa_disk.expire]_vars

(***************************************************************************)
(* C8: the timer handler moves a zone to EXPIRED only when now -           *)
(* soa_disk_acquired > soa_disk.expire; a zone inside its expire window is *)
(* never moved to EXPIRED by a probe timeout.                              *)
(***************************************************************************)
C8_ExpiredOnlyPastExpire ==
    [][\A z \in DOMAIN zone :
          (/\ last'.ev = "timeout"
           /\ last'.z = z
           /\ zone[z].zone_state # xfrd_zone_expired
           /\ zone'[z].zone_state = xfrd_zone_expired)
          => now - zone[z].soa_disk_acquired > zone[z].soa_disk.expire]_vars

(***************************************************************************)
(* C9: a probing zone with soa_disk_acquired != 0 becomes EXPIRED at the   *)
(* first timer event at which now - soa_disk_acquired > soa_disk.expire,   *)
(* and the expiry notification goes out once, at that transition: never in *)
(* an event of a zone that was EXPIRED already.                            *)
(***************************************************************************)
\* the expiry notifications the step sent for zone z
ExpirySent(z) ==
    {i \in DOMAIN last'.log : last'.log[i] = <<"expiry", z>>}

C9_ExpiredAtFirstEventOnce ==
    [][\A z \in DOMAIN zone :
          ProbeTimeout(z) =>
            /\ (now - zone[z].soa_disk_acquired > zone[z].soa_disk.expire
                    => zone'[z].zone_state = xfrd_zone_expired)
            /\ Cardinality(ExpirySent(z)) =
                    IF /\ zone[z].zone_state # xfrd_zone_expired
                       /\ zone'[z].zone_state = xfrd_zone_expired
                    THEN 1 ELSE 0]_vars

(***************************************************************************)
(* C10: when the timer of a zone in state OK goes off the zone becomes     *)
(* REFRESHING and a probe is sent in the same event; and a zone in state   *)
(* OK has its timer at soa_disk_acquired + soa_disk.refresh.               *)
(***************************************************************************)
C10_OkTimerRefreshes ==
    [][/\ \A z \in DOMAIN zone :
            (ProbeTimeout(z) /\ zone[z].zone_state = xfrd_zone_ok)
            => /\ zone'[z].zone_state = xfrd_zone_refreshing
               /\ \E i \in DOMAIN last'.log : last'.log[i] = <<"sent_udp", z>>
       /\ \A z \in DOMAIN zone :
            zone'[z].zone_state = xfrd_zone_ok
            => zone'[z].timeout = zone'[z].soa_disk_acquired
                                    + zone'[z].soa_disk.refresh]_vars

(***************************************************************************)
(* C11: a zone with soa_disk_acquired != 0 that receives a valid reply     *)
(* whose first answer SOA has the serial of soa_disk ends the event in     *)
(* state OK with soa_disk_acquired = now and its timer at now +            *)
(* soa_disk.refresh, its soa_disk.serial unchanged and no record of the    *)
(* zone written to the diff file.                                          *)
(***************************************************************************)
\* the step handled a reply with the serial zone z has on disk
CurrentSerialReply(z) ==
    \E i \in DOMAIN last'.log : last'.log[i] = <<"current_serial", z>>

\* the records the step wrote to the diff file for zone z
DiffRecords(z) ==
    {i \in DOMAIN last'.log :
        /\ last'.log[i][1] \in {"diff_write_packet", "diff_write_commit"}
        /\ last'.log[i][2] = z}

\* what C11 says of zone z after the step
LeaseRenewed(z) ==
    /\ zone'[z].zone_state = xfrd_zone_ok
    /\ zone'[z].soa_disk_acquired = now'
    /\ zone'[z].timeout = now' + zone'[z].soa_disk.refresh
    /\ zone'[z].soa_disk.serial = zone[z].soa_disk.serial
    /\ DiffRecords(z) = {}

C11_UnchangedSerial ==
    [][\A z \in DOMAIN zone : CurrentSerialReply(z) => LeaseRenewed(z)]_vars

(***************************************************************************)
(* C11, amended: the same, for a zone that has no notification waiting     *)
(* (soa_notified_acquired = 0) when the reply comes.                       *)
(***************************************************************************)
C11_UnchangedSerialNoNotify ==
    [][\A z \in DOMAIN zone :
          (CurrentSerialReply(z) /\ zone[z].soa_notified_acquired = 0)
          => LeaseRenewed(z)]_vars

\* after the start a zone without a notification got the serial it has
C11_Witness ==
    /\ now > StartTime
    /\ \E z \in DOMAIN zone :
          /\ \E i \in Traced("current_serial") : TraceAt(i)[2] = z
          /\ zone[z].soa_notified_acquired = 0
          /\ zone[z].zone_state = xfrd_zone_ok
          /\ zone[z].soa_disk_acquired = now

(***************************************************************************)
(* C12: a reply with the serial the zone has on disk sets                  *)
(* soa_disk_acquired to now only when soa_notified_acquired = 0, and then  *)
(* sets soa_nsd_acquired to now only if soa_nsd has that serial too; with  *)
(* soa_notified_acquired != 0 it leaves both acquired times as they were.  *)
(***************************************************************************)
C12_LeaseOnlyWithoutNotify ==
    [][\A z \in DOMAIN zone :
          CurrentSerialReply(z) =>
            IF zone[z].soa_notified_acquired = 0
            THEN /\ zone'[z].soa_disk_acquired = now'
                 /\ zone'[z].soa_nsd_acquired =
                        IF zone[z].soa_nsd.serial = zone[z].soa_disk.serial
                        THEN now' ELSE zone[z].soa_nsd_acquired
            ELSE /\ zone'[z].soa_disk_acquired = zone[z].soa_disk_acquired
                 /\ zone'[z].soa_nsd_acquired = zone[z].soa_nsd_acquired]_vars

\* a notified zone got the serial it has and kept its older lease
C12_Witness ==
    \E z \in DOMAIN zone :
        /\ \E i \in Traced("current_serial") : TraceAt(i)[2] = z
        /\ zone[z].soa_notified_acquired # 0
        /\ zone[z].soa_disk_acquired < now

(***************************************************************************)
(* C13: the diff file gets records only when a transfer is committed: one  *)
(* packet record followed at once by one commit record, which carries the  *)
(* zone and the serial soa_disk takes; every reply handled ends either in  *)
(* that pair or in a rejection (failed validation, an old serial, the      *)
(* serial on disk, TC, fewer than two answers) that writes no record, and  *)
(* a committed serial is newer than the one the zone had on disk.          *)
(***************************************************************************)
\* the ways xfrd_handle_received_xfr_packet drops a reply
Rejections ==
    {"bad_id", "bad_rcode", "bad_question", "no_answer", "no_soa", "bad_rr",
     "old_serial", "current_serial", "tc", "too_short"}

\* the step is a read event that took a reply from the UDP socket
UdpReply ==
    /\ last'.ev = "read"
    /\ zone[last'.z].tcp_conn = -1
    /\ ~(last'.log # <<>> /\ last'.log[1][1] = "recvfrom_failed")

\* the places of the trace after which a reply is handled (0: its start)
ReplyStarts ==
    {i \in DOMAIN last'.log : last'.log[i][1] = "tcp_message"}
    \cup (IF UdpReply THEN {0} ELSE {})

\* the places of the trace where the handling of a reply ends
ReplyOutcomes ==
    {i \in DOMAIN last'.log :
        last'.log[i][1] \in Rejections \cup {"diff_write_packet"}}

C14_ReloadAfterCommit ==
    \A i \in Traced("diff_write_commit") :
        \E j \in Traced("ipc_reload") : j > i

(***************************************************************************)
(* C15: a read event whose reply fails validation (an ID that is not       *)
(* query_id, an RCODE that is not 0, a bad question, no answer, a first    *)
(* answer that is no IN SOA) leaves the zone state, soa_disk, soa_nsd,     *)
(* soa_notified, their acquired times, the master and the timer as they    *)
(* were when the reply was handed over (the read event of a TCP slot has   *)
(* armed now + XFRD_TCP_TIMEOUT before it reads), and no TCP slot is asked *)
(* for.                                                                    *)
(***************************************************************************)
ValidationFailures ==
    {"bad_id", "bad_rcode", "bad_question", "no_answer", "no_soa", "bad_rr"}

\* the step is a read event of zone z and the reply it read, from the UDP
\* socket (at place 1 of the trace) or from the TCP slot (at place 2, after
\* the message was complete), failed validation
FailedValidation(z) ==
    {i \in DOMAIN last'.log :
        /\ last'.ev = "read"
        /\ last'.z = z
        /\ i = IF last'.log[1][1] = "tcp_message" THEN 2 ELSE 1
        /\ last'.log[i][1] \in ValidationFailures}

\* the SOA data, the state and the master of a zone
ZoneData(zn) ==
    <<zn.zone_state, zn.soa_disk, zn.soa_nsd, zn.soa_notified,
      zn.soa_disk_acquired, zn.soa_nsd_acquired, zn.soa_notified_acquired,
      zn.master, zn.master_num>>

C15_FailedValidationFrame ==
    [][\A z \in DOMAIN zone : \A i \in FailedValidation(z) :
          /\ ZoneData(zone'[z]) = ZoneData(zone[z])
          /\ zone'[z].timeout =
                IF i = 2 THEN now' + XFRD_TCP_TIMEOUT ELSE zone[z].timeout
          /\ \A j \in DOMAIN last'.log :
                last'.log[j][1] \in {"obtain", "wait"} => last'.log[j][2] # z
          /\ ~HasTcpSlot(z)' /\ ~InWaitQueue(z)']_vars

\* a reply read from a TCP slot failed validation
C15_Witness ==
    /\ last.ev = "read"
    /\ Len(Trace) > 1
    /\ TraceAt(1)[1] = "tcp_message"
    /\ TraceAt(2)[1] \in ValidationFailures
    /\ now > StartTime

(***************************************************************************)
(* C16: every reply to a UDP probe that has the TC bit set promotes the    *)
(* zone to TCP: after the event the UDP socket of the zone is closed and   *)
(* the zone holds a TCP slot or is on the wait queue.                      *)
(***************************************************************************)
\* the step is a read event of zone z that took a truncated reply from the
\* UDP socket and reached the TC test with it
TruncatedUdpReply(z) ==
    /\ last'.ev = "read"
    /\ last'.z = z
    /\ zone[z].tcp_conn = -1
    /\ last'.log # <<>>
    /\ last'.log[1] = <<"tc", z>>

\* after the step zone z has no UDP socket: its handler has no descriptor
\* or the one of its TCP slot
UdpSocketClosed(z) == ~UdpInFlight(z)'

C16_TcPromotes ==
    [][\A z \in DOMAIN zone :
          TruncatedUdpReply(z) =>
            /\ UdpSocketClosed(z)
            /\ HasTcpSlot(z)' \/ InWaitQueue(z)']_vars

(***************************************************************************)
(* C16, amended: a truncated reply to a UDP probe that passes validation   *)
(* and has a serial that is neither older than nor equal to the one on     *)
(* disk makes the zone ask for a TCP slot in the same event: its UDP       *)
(* socket is closed and the next thing done is to give it a slot, if the   *)
(* pool has one free, or to put it on the wait queue.  After the event the *)
(* zone waits, or holds the slot, or its connection has ended in the event *)
(* (it could not be opened, or the transfer came to its end).              *)
(***************************************************************************)
C16_TcAsksForSlot ==
    [][\A z \in DOMAIN zone :
          TruncatedUdpReply(z) =>
            /\ UdpSocketClosed(z)
            /\ Len(last'.log) > 1
            /\ IF tcp_count < XFRD_MAX_TCP
               THEN /\ last'.log[2][1] = "obtain"
                    /\ last'.log[2][2] = z
                    /\ \/ HasTcpSlot(z)'
                       \/ \E i \in DOMAIN last'.log :
                             /\ last'.log[i][1] = "release"
                             /\ last'.log[i][2] = z
               ELSE /\ last'.log[2] = <<"wait", z>>
                    /\ InWaitQueue(z)']_vars

\* a truncated reply got its zone a slot whose connection is still open
C16_Witness ==
    /\ last.ev = "read"
    /\ Len(Trace) > 1
    /\ TraceAt(1)[1] = "tc"
    /\ TraceAt(2)[1] = "obtain"
    /\ HasTcpSlot(TraceAt(1)[2])

(***************************************************************************)
(* C17: on a TCP write error, a TCP read error, an end of file while       *)
(* reading, a message length that is too big or a TCP timeout, the event   *)
(* releases the slot of the zone and leaves its timer where retry          *)
(* scheduling (xfrd_set_timer_retry) puts it.                              *)
(***************************************************************************)
TcpFailures ==
    {"tcp_write_failed", "tcp_read_failed", "tcp_eof", "tcp_too_big",
     "tcp_timeout"}

\* the step had a TCP failure of zone z
TcpFailed(z) ==
    \E i \in DOMAIN last'.log :
        last'.log[i][1] \in TcpFailures /\ last'.log[i][2] = z

\* the timers xfrd_set_timer_retry arms for zone z in the step
RetryTimers(z) ==
    {r.zone[z].timeout :
        r \in xfrd_set_timer_retry([now |-> now', zone |-> zone'], z)}

C17_TcpFailureRetries ==
    [][\A z \in DOMAIN zone :
          TcpFailed(z) =>
            /\ ~HasTcpSlot(z)'
            /\ zone'[z].handler_timeout
            /\ zone'[z].timeout \in RetryTimers(z)]_vars

(***************************************************************************)
(* C18: at every retry of a zone (a timer event that makes a new attempt:  *)
(* the zone has no TCP slot and is not waiting for one) the master         *)
(* becomes the next of the list of the zone, the first one after the last, *)
(* and master_num is the position of the master in the list.               *)
(***************************************************************************)
\* the step is a timer event of zone z that makes a new attempt
Retry(z) ==
    /\ last'.ev = "timeout"
    /\ last'.z = z
    /\ zone[z].tcp_conn = -1
    /\ zone[z].tcp_waiting = 0

C18_MasterRotates ==
    [][\A z \in DOMAIN zone :
          Retry(z) =>
            /\ zone'[z].master = (zone[z].master + 1) % NumMasters
            /\ zone'[z].master_num = zone'[z].master]_vars

(***************************************************************************)
(* C19: when the master index of a zone in the state file is no index of   *)
(* the list of masters, xfrd_read_state leaves the zone on the first       *)
(* master with master_num = 0; and in every state master_num is the        *)
(* position of the master in the list.                                     *)
(***************************************************************************)
\* the zones xfrd_read_state found with a master index past the list
MastersChanged ==
    {TraceAt(i)[2] : i \in Traced("masters_changed")}

C19_MasterIndexFallback ==
    /\ last.ev = "read_state" =>
          \A z \in MastersChanged :
              zone[z].master = 0 /\ zone[z].master_num = 0
    /\ \A z \in DOMAIN zone :
          /\ zone[z].master \in 0 .. (NumMasters - 1)
          /\ zone[z].master_num = zone[z].master

(***************************************************************************)
(* C20: after the start (xfrd_init_zones, then xfrd_read_state) a zone     *)
(* with soa_disk_acquired = 0, or whose next_timeout in the state file has *)
(* passed, is in state REFRESHING, or EXPIRED if now - soa_disk_acquired > *)
(* soa_disk.expire, and its timer is set to now.                           *)
(***************************************************************************)
\* the state file has a next_timeout for zone z that lies before now
TimeoutPassed(z) ==
    /\ statefile.exists
    /\ \E i \in DOMAIN statefile.blocks :
          /\ statefile.blocks[i].name = z
          /\ statefile.blocks[i].next_timeout < now

C20_StartupRefreshing ==
    last.ev = "read_state" =>
        \A z \in DOMAIN zone :
            (zone[z].soa_disk_acquired = 0 \/ TimeoutPassed(z)) =>
                /\ zone[z].zone_state =
                      IF /\ zone[z].soa_disk_acquired # 0
                         /\ now - zone[z].soa_disk_acquired
                                > zone[z].soa_disk.expire
                      THEN xfrd_zone_expired
                      ELSE xfrd_zone_refreshing
                /\ zone[z].handler_timeout
                /\ zone[z].timeout = now

(***************************************************************************)
(* C21: a damaged state file.                                              *)
(***************************************************************************)
\* the state file has been read and no event has been handled yet
JustStarted == last.ev = "read_state"

\* the zone stands as block b of the state file left it
Rehydrated(z, b) ==
    /\ zone[z].zone_state = ZoneStateOf(b.state)
    /\ zone[z].master = b.master
    /\ zone[z].timeout = b.next_timeout
    /\ zone[z].soa_disk = b.soa_disk
    /\ zone[z].soa_disk_acquired = b.soa_disk_acquired

\* the zone stands as xfrd_init_zones left it
StillInitial(z) ==
    /\ zone[z].zone_state = xfrd_zone_refreshing
    /\ zone[z].master = 0
    /\ zone[z].timeout = StartTime

\* an acquired time of block b is more than 15 s ahead of the start
FutureBlock(b) ==
    \/ b.soa_nsd_acquired > StartTime + FutureSlack
    \/ b.soa_disk_acquired > StartTime + FutureSlack
    \/ b.soa_notified_acquired > StartTime + FutureSlack

\* the blocks of the state file that come before the place where corrupt(b)
\* holds of a block, none if the header of the file is damaged
BlocksBefore(corrupt(_)) ==
    IF ~statefile.exists \/ ~statefile.header_ok
       \/ statefile.filetime > StartTime + FutureSlack
    THEN {}
    ELSE {i \in 1 .. Len(statefile.blocks) :
            \A j \in 1 .. i : ~corrupt(statefile.blocks[j])}

\* C21 as the claim states it: a block that does not parse and a block with
\* an acquired time in the future both end the reading; the zones of the
\* blocks before that place are rehydrated, every other zone is as
\* initialised.
C21_FutureEndsReading ==
    JustStarted =>
        LET parsed == BlocksBefore(LAMBDA b : ~b.ok \/ FutureBlock(b)) IN
        \A z \in DOMAIN zone :
            IF \E i \in parsed : statefile.blocks[i].name = z
            THEN \A i \in parsed : statefile.blocks[i].name = z =>
                                       Rehydrated(z, statefile.blocks[i])
            ELSE StillInitial(z)

\* C21, amended: only a block that does not parse (or a damaged header)
\* ends the reading.  A block with an acquired time in the future is
\* skipped like the block of a zone that is not configured: its zone stays
\* as initialised and the blocks after it are still read.
C21_FutureSkipsBlock ==
    JustStarted =>
        LET parsed == {i \in BlocksBefore(LAMBDA b : ~b.ok) :
                          ~FutureBlock(statefile.blocks[i])} IN
        \A z \in DOMAIN zone :
            IF \E i \in parsed : statefile.blocks[i].name = z
            THEN \A i \in parsed : statefile.blocks[i].name = z =>
                                       Rehydrated(z, statefile.blocks[i])
            ELSE StillInitial(z)

\* a block with a time in the future was skipped and the block after it
\* was taken over
C21_Witness ==
    /\ JustStarted
    /\ Traced("future") # {}
    /\ \E z \in DOMAIN zone : zone[z].zone_state = xfrd_zone_ok
    /\ \E z \in DOMAIN zone : StillInitial(z)

(***************************************************************************)
(* C22: the state file written at shutdown, read back.                     *)
(***************************************************************************)
\* the process when it starts again in the second it stopped, before it
\* reads the state file: the zones as xfrd_init_zones makes them from the
\* database, which holds for a zone the SOA that nsd serves
Restarted(env) ==
    [State(env) EXCEPT
        !.zone = [z \in DOMAIN zone |->
                    LET db == IF zone[z].soa_nsd_acquired = 0 THEN NoSoa
                              ELSE zone[z].soa_nsd
                        acquired == IF db = NoSoa THEN 0 ELSE now
                    IN  [InitZone(db) EXCEPT !.timeout = now,
                                             !.soa_nsd_acquired = acquired,
                                             !.soa_disk_acquired = acquired]]]

\* C22: when the process has exited and has written its state file,
\* xfrd_read_state of that file, in a process started again with the same
\* zones in the same second, gives every zone the state, the master index,
\* the next timeout and the three SOAs with their acquired times that the
\* zone had when the file was written.
C22_RoundTrip ==
    (pc = "exit" /\ Traced("fopen_failed") = {}) =>
        LET back == xfrd_read_state(Restarted(EnvShut), statefile).zone IN
        \A z \in DOMAIN zone :
            /\ back[z].zone_state = zone[z].zone_state
            /\ back[z].master_num = zone[z].master_num
            /\ back[z].timeout = zone[z].timeout
            /\ back[z].soa_nsd = zone[z].soa_nsd
            /\ back[z].soa_nsd_acquired = zone[z].soa_nsd_acquired
            /\ back[z].soa_disk = zone[z].soa_disk
            /\ back[z].soa_disk_acquired = zone[z].soa_disk_acquired
            /\ back[z].soa_notified = zone[z].soa_notified
            /\ back[z].soa_notified_acquired = zone[z].soa_notified_acquired

C24_NsdNotNewer ==
    \A z \in DOMAIN zone :
        (zone[z].soa_nsd_acquired # 0 /\ zone[z].soa_disk_acquired # 0) =>
            compare_serial(zone[z].soa_nsd.serial,
                           zone[z].soa_disk.serial) <= 0

(***************************************************************************)
(* C25: the kind of request a zone sends.                                  *)
(***************************************************************************)
\* the places of the trace of the step where a query of zone z was built
QueriesBuilt(z) ==
    {i \in DOMAIN last'.log :
        /\ last'.log[i][1] \in {"udp_ixfr", "tcp_axfr", "tcp_ixfr"}
        /\ last'.log[i][2] = z}

\* C25: a zone that has no disk SOA when an event starts builds no UDP
\* IXFR query in it, and a TCP query it builds is an AXFR with no SOA; a
\* zone that has a disk SOA builds a UDP IXFR when its timer goes off and
\* it has no slot and is not waiting for one, and every query it builds,
\* by UDP or TCP, is an IXFR with NSCOUNT 1 and the serial of soa_disk;
\* after the event query_id is the ID of the last query the zone built.
C25_RequestKind ==
    [][\A z \in DOMAIN zone :
        LET had_soa == zone[z].soa_disk_acquired # 0
            built == QueriesBuilt(z)
        IN  /\ \A i \in built :
                LET q == last'.log[i] IN
                IF had_soa
                THEN /\ q[1] \in {"udp_ixfr", "tcp_ixfr"}
                     /\ q[4] = 1
                     /\ q[5] = zone[z].soa_disk.serial
                ELSE q[1] = "tcp_axfr" /\ q[4] = 0
            /\ (/\ last'.ev = "timeout" /\ last'.z = z
                 /\ had_soa /\ ~HasTcpSlot(z) /\ ~InWaitQueue(z))
                    => \E i \in built : last'.log[i][1] = "udp_ixfr"
            /\ \A i \in built :
                    (\A j \in built : j <= i) =>
                        zone'[z].query_id = last'.log[i][3]
      ]_vars

\* a zone with a disk SOA has asked for an IXFR over TCP and waits for
\* the reply
C25_Witness ==
    \E i \in Traced("tcp_ixfr") :
        /\ HasTcpSlot(TraceAt(i)[2])
        /\ TraceAt(i)[4] = 1
        /\ zone[TraceAt(i)[2]].query_id = TraceAt(i)[3]

(***************************************************************************)
(* C26: the write phase and the read phase of a TCP slot.                  *)
(***************************************************************************)
\* the places of the trace of the step where a message of zone z was
\* handed to xfrd_handle_received_xfr_packet
MessagesHandled(z) ==
    {i \in DOMAIN last'.log :
        last'.log[i][1] = "tcp_message" /\ last'.log[i][2] = z}

\* the slot that zone z held before the step is reading and the last byte
\* of a message is in: total_bytes = msglen + 2
MessageComplete(z) ==
    /\ HasTcpSlot(z)
    /\ LET tcp == tcp_state'[zone[z].tcp_conn] IN
        /\ tcp.is_reading = 1
        /\ tcp.total_bytes >= LenPrefix
        /\ tcp.total_bytes = tcp.msglen + LenPrefix

\* C26: between two events a slot in use is either writing, with fewer
\* than msglen + 2 bytes written, or reading, with fewer than the 2 bytes
\* of the prefix or fewer than msglen + 2 bytes read, and the buffer
\* stands at the offset reached; a slot that stays with its zone never
\* goes back from reading to writing, counts its bytes up within a phase,
\* and starts reading only in a write event that wrote the last byte of
\* the query; a message whose last byte is in is handed to the validator,
\* once, and the slot is released after that.
C26_WriteThenRead ==
    [][\A z \in DOMAIN zone :
        LET conn == zone[z].tcp_conn
            released == \E i \in DOMAIN last'.log :
                            /\ last'.log[i][1] = "release"
                            /\ last'.log[i][2] = z
        IN  /\ (HasTcpSlot(z)' /\ aborted' = "") =>
                    LET tcp == tcp_state'[zone'[z].tcp_conn] IN
                    /\ tcp.total_bytes <
                        (IF tcp.is_reading = 1 /\ tcp.total_bytes < LenPrefix
                         THEN LenPrefix ELSE tcp.msglen + LenPrefix)
                    /\ tcp.position = IF tcp.total_bytes > LenPrefix
                                      THEN tcp.total_bytes - LenPrefix ELSE 0
            /\ (HasTcpSlot(z) /\ zone'[z].tcp_conn = conn /\ ~released) =>
                    /\ tcp_state'[conn].is_reading >= tcp_state[conn].is_reading
                    /\ tcp_state'[conn].is_reading = tcp_state[conn].is_reading
                         => tcp_state'[conn].total_bytes >=
                                tcp_state[conn].total_bytes
                    /\ tcp_state'[conn].is_reading # tcp_state[conn].is_reading
                         => /\ last'.ev = "write"
                            /\ \E i \in DOMAIN last'.log :
                                    last'.log[i] = <<"tcp_written", z>>
            /\ Cardinality(MessagesHandled(z)) <= 1
            /\ \A i \in MessagesHandled(z) :
                    \/ aborted' # ""
                    \/ \E j \in DOMAIN last'.log :
                            /\ j > i
                            /\ last'.log[j][1] = "release"
                            /\ last'.log[j][2] = z
            /\ MessageComplete(z) => MessagesHandled(z) # {}
      ]_vars

(***************************************************************************)
(* C27: a zone on the wait queue.                                          *)
(***************************************************************************)
\* zone w was taken from the head of the wait queue and given a slot
Popped(w) == \E i \in Traced("pop") : TraceAt(i)[2] = w

\* C27: if every zone that holds a slot is again and again without one
\* (its transfer completes, fails or times out), a zone on the wait queue
\* is in the end taken from the queue and given a slot; a zone leaves the
\* queue in no other way; and when the timer of a zone on the queue goes
\* off the zone stays where it is in the queue, keeps its master and
\* builds no query.
C27_ParkedZoneServed ==
    /\ (\A z \in Zones : []<>~HasTcpSlot(z)) =>
            (\A w \in Zones : InWaitQueue(w) ~> Popped(w))
    /\ [][\A w \in Zones :
            /\ (InWaitQueue(w) /\ ~InWaitQueue(w)') => Popped(w)'
            /\ (InWaitQueue(w) /\ last'.ev = "timeout" /\ last'.z = w) =>
                    /\ InWaitQueue(w)'
                    /\ tcp_waiting_first' = tcp_waiting_first
                    /\ tcp_waiting_last' = tcp_waiting_last
                    /\ arrivals' = arrivals
                    /\ \A z \in Zones : zone'[z].tcp_waiting_next =
                                            zone[z].tcp_waiting_next
                    /\ zone'[w].master = zone[w].master
                    /\ zone'[w].master_num = zone[w].master_num
                    /\ zone'[w].fd = -1
                    /\ QueriesBuilt(w) = {}
                    /\ last'.log = <<<<"timeout", w>>, <<"skips_retry", w>>>>
       ]_vars

\* the timer of a zone went off while it was on the wait queue, and the
\* zone is still on the queue
C27_Witness ==
    /\ last.ev = "timeout"
    /\ InWaitQueue(last.z)
    /\ Traced("skips_retry") # {}

(***************************************************************************)
(* C28: the wait queue.                                                    *)
(***************************************************************************)
RECURSIVE QueueFrom(_, _)
\* the zones reached from zone z along tcp_waiting_next, at most n of them
QueueFrom(z, n) ==
    IF z = NULL \/ n = 0 THEN <<>>
    ELSE <<z>> \o QueueFrom(zone[z].tcp_waiting_next, n - 1)

\* C28: in every state the wait queue is empty unless tcp_count is
\* XFRD_MAX_TCP; the zones reached from tcp_waiting_first are the zones
\* with tcp_waiting = 1, each once, in the order they came; the last of
\* them is tcp_waiting_last and has no next; and both ends are null when
\* no zone waits.
C28_WaitQueue ==
    LET queue == QueueFrom(tcp_waiting_first, Cardinality(DOMAIN zone) + 1)
    IN  /\ queue # <<>> => tcp_count = XFRD_MAX_TCP
        /\ {queue[i] : i \in DOMAIN queue} =
           {z \in DOMAIN zone : InWaitQueue(z)}
        /\ \A i, j \in DOMAIN queue : queue[i] = queue[j] => i = j
        /\ queue = arrivals
        /\ IF queue = <<>>
           THEN tcp_waiting_first = NULL /\ tcp_waiting_last = NULL
           ELSE /\ tcp_waiting_last = queue[Len(queue)]
                /\ zone[tcp_waiting_last].tcp_waiting_next = NULL

\* two zones wait for the one slot that a third holds
C28_Witness ==
    /\ Len(QueueFrom(tcp_waiting_first, Cardinality(DOMAIN zone))) >= 2
    /\ tcp_waiting_last # tcp_waiting_first
    /\ ZonesWithSlot # {}

C30_NeverAborts == aborted = ""

(***************************************************************************)
(* C31: the UDP sockets.                                                   *)
(***************************************************************************)
\* the descriptors that are open and are not the descriptor of a TCP slot
UdpSockets == open_fds \ {tcp_state[i].fd : i \in Slots}

\* C31: in every state each UDP socket that is open is the descriptor of
\* the handler of exactly one zone, a zone that holds no TCP slot.
C31_NoUdpSocketLeaked ==
    \A fd \in UdpSockets :
        Cardinality({z \in DOMAIN zone : UdpInFlight(z) /\ zone[z].fd = fd}) = 1

(***************************************************************************)
(* C32: the timers of the zones.                                           *)
(***************************************************************************)
\* netio_dispatch looks at the timeout of the handler of zone z
TimerArmed(z) ==
    /\ zone[z].handler_timeout
    /\ NETIO_EVENT_TIMEOUT \in zone[z].event_types

\* C32: in every state every zone has an armed timer: its handler points
\* at the timeout of the zone and takes timeout events.
C32_TimerNeverDisarmed == \A z \in DOMAIN zone : TimerArmed(z)

\* zone w was parked in the wait queue; in the last event the slot was
\* released and handed to w, the connect of w failed and w gave the slot
\* back, and zone z, parked behind it, took it: both have armed timers
C32_Witness ==
    \E z, w \in DOMAIN zone :
        /\ z # w
        /\ \E i \in Traced("pop") : TraceAt(i)[2] = w
        /\ \E i \in Traced("connect_failed") : TraceAt(i)[2] = w
        /\ \E i \in Traced("pop") : TraceAt(i)[2] = z
        /\ ~HasTcpSlot(w)
        /\ ~InWaitQueue(w)
        /\ HasTcpSlot(z)
        /\ TimerArmed(z)
        /\ TimerArmed(w)

====
